---- MODULE Spec2Model ----
(***************************************************************************)
(* mserve.py: the byte-range file streamer (send_file), the rate-limited   *)
(* metadata cache (get_json_from_url) and the credit index                 *)
(* (fetch_tmdb_show_details_credits), as state machines.                   *)
(***************************************************************************)
EXTENDS Integers, Sequences, FiniteSets, TLC

(***************************************************************************)
(* Bounds of the model.                                                    *)
(***************************************************************************)
\* Small files have every size 0..MaxSmallSize.
MaxSmallSize == 3
\* Large files span up to MaxChunks full chunks (plus one byte).
MaxChunks == 2
\* The rate limiters have every limit 1..MaxLimit.
MaxLimit == 2
\* AUTOINCREMENT ids are given up to MaxRowId.
MaxRowId == 5
\* the longest path of the paths that are enumerated
MaxPathLen == 4
\* the most files of a show directory
MaxFiles == 4
\* the most shows of a directory page
MaxShows == 1

\* chunk_size of send_whole_file and send_partial_file.
chunk_size == 64 * 1024

Min(S) == CHOOSE x \in S : \A y \in S : x <= y

\* The numbers a client writes into a Range header.
RangeVals ==
    (0..MaxSmallSize) \cup {49, 50, 100, chunk_size - 1, chunk_size, 2 * chunk_size}

(***************************************************************************)
(* Text: a str is a sequence of one-character strings.                     *)
(***************************************************************************)
Digit == <<"0", "1", "2", "3", "4", "5", "6", "7", "8", "9">>

IsDigit(c) == \E i \in 1..10 : Digit[i] = c

DigitVal(c) == (CHOOSE i \in 1..10 : Digit[i] = c) - 1

\* "%s" % n for a natural number n.
RECURSIVE StrNat(_)
StrNat(n) ==
    IF n < 10 THEN <<Digit[n + 1]>>
    ELSE StrNat(n \div 10) \o <<Digit[(n % 10) + 1]>>

\* "%s" % n for an int.
Str(n) == IF n < 0 THEN <<"-">> \o StrNat(0 - n) ELSE StrNat(n)

\* int(s) succeeds: over the alphabet of the headers below (no sign, blank
\* or underscore), on the non-empty digit strings.
CanInt(s) == Len(s) > 0 /\ \A i \in 1..Len(s) : IsDigit(s[i])

\* int(s) of a digit string.
RECURSIVE IntOf(_)
IntOf(s) ==
    IF Len(s) = 1 THEN DigitVal(s[1])
    ELSE 10 * IntOf(SubSeq(s, 1, Len(s) - 1)) + DigitVal(s[Len(s)])

\* s.split(sep) for a one-character sep.
RECURSIVE Split(_, _)
Split(s, sep) ==
    LET idx == {i \in 1..Len(s) : s[i] = sep}
    IN  IF idx = {} THEN <<s>>
        ELSE <<SubSeq(s, 1, Min(idx) - 1)>>
                 \o Split(SubSeq(s, Min(idx) + 1, Len(s)), sep)

BytesEq == <<"b", "y", "t", "e", "s", "=">>

(***************************************************************************)
(* The Range headers a client sends.  headers.get('Range', None) is None   *)
(* when the header is absent.                                              *)
(***************************************************************************)
NoRange == [present |-> FALSE, text |-> <<>>]
Hdr(s) == [present |-> TRUE, text |-> s]

\* What a client asks for: no range, one of the three single-range forms
\* with its numbers, or one of the other headers above.
Ask(form, a, b) == [form |-> form, a |-> a, b |-> b]

MalformedForms == {"multi", "notbytes", "alpha", "nodash"}

\* The Range header of the request the client sends.
RangeOf(c) ==
    CASE c.form = "none" -> NoRange
      [] c.form = "prefix" -> (Hdr(BytesEq \o Str(c.a) \o <<"-">>))
      [] c.form = "full" -> (Hdr(BytesEq \o Str(c.a) \o <<"-">> \o Str(c.b)))
      [] c.form = "suffix" -> (Hdr(BytesEq \o <<"-">> \o Str(c.a)))
      [] c.form = "multi" -> (Hdr(BytesEq \o <<"0", "-", "1", ",", "2", "-", "3">>))
      [] c.form = "notbytes" -> (Hdr(<<"i", "t", "e", "m", "s", "=", "0", "-", "1">>))
      [] c.form = "alpha" -> (Hdr(BytesEq \o <<"a", "-", "b">>))
      [] c.form = "nodash" -> (Hdr(BytesEq \o <<"5">>))
      [] c.form = "baredash" -> (Hdr(BytesEq \o <<"-">>))
      [] c.form = "twoeq" -> (Hdr(BytesEq \o <<"1", "-", "2", "=", "3">>))

(***************************************************************************)
(* parse_range_header: None, a pair (start, end) with end possibly None,   *)
(* or a raised Exception.                                                  *)
(***************************************************************************)
RangeNone == [kind |-> "None", start |-> 0, end |-> 0, end_is_None |-> TRUE]
RangeRaise == [kind |-> "raise", start |-> 0, end |-> 0, end_is_None |-> TRUE]

\* The suffix form read as "the last N bytes" would need the file size;
\* parse_range_header has none and reads '-N' as (0, N).
parse_range_header(header) ==
    IF ~header.present THEN RangeNone
    ELSE IF ~(Len(header.text) >= Len(BytesEq) /\ SubSeq(header.text, 1, Len(BytesEq)) = BytesEq) THEN RangeRaise
    ELSE LET parts == Split(Split(header.text, "=")[2], "-")
         IN  IF Len(parts) # 2 THEN RangeRaise
             ELSE LET s == parts[1]
                      e == parts[2]
                  IN  IF (s # <<>> /\ ~CanInt(s)) \/ (e # <<>> /\ ~CanInt(e))
                      THEN RangeRaise
                      ELSE [kind |-> "pair",
                            start |-> IF s = <<>> THEN 0 ELSE IntOf(s),
                            end |-> IF e = <<>> THEN 0 ELSE IntOf(e),
                            end_is_None |-> (e = <<>>)]

(***************************************************************************)
(* State.                                                                  *)
(***************************************************************************)
VARIABLES
    \* -- one connection served by handle_request / file_endpoint / send_file
    client,         \* the range the client asks for: form and numbers
    fpc,            \* where the handler thread is
    handler,        \* the request: command and the Range header
    fpath,          \* the file at fpath: exists, size, extension
    fn,             \* handle_request's local: the handler route() returned
    scan,           \* scan_for_videos: its sorted video_triples and its result
    page,           \* prepare_tuples: the place in its loop over the triples
    range_header,   \* send_file's local: the parsed Range header
    fd,             \* send_file's file handle: open, position
    remaining,      \* send_partial_file's local
    wfile,          \* the responses written to the connection, in order
    exc,            \* the exception that is propagating, "none" if none
    db,             \* the index connections: how many get_db opened, how many were closed
    fault,          \* the I/O fault the environment injected, "none" if none
    prev,           \* the outcome of the previous request, when it is re-issued
    \* -- the process-wide state shared by the handler threads
    g_tmdb_rate_limiter,            \* [limit, counter]
    g_moviesdatabase_rate_limiter,  \* [limit, counter]
    g_tmdb_token,                   \* TRUE when TMDB_TOKEN is set
    g_rapidapi_key,                 \* TRUE when RAPIDAPI_KEY is set
    g_static_routes,                \* url_path -> (method -> handler)
    listdir,        \* the show directory: has it mserve.json, its file names
    triples,        \* the shows of the directory page: their tmdb ids, in order
    cache,          \* the cache files: cache_fpath -> [exists, data]
    tmdb_cast,      \* the committed rows of table tmdb_cast
    tmdb_crew,      \* the committed rows of table tmdb_crew
    sqlite_sequence,\* AUTOINCREMENT: the largest id ever given, per table
    \* -- the handler threads that render pages (directory_endpoint)
    pc,             \* thread -> where it is
    call,           \* thread -> the metadata call it is in
    loc,            \* thread -> the locals of that call
    err,            \* thread -> the exception that ended its last request
    ingest,         \* tmdb_id -> the credits last inserted, and how often in a row
    fetched         \* provider -> urlopen calls since the last counter reset

fileVars ==
    <<client, fpc, handler, fpath, fn, scan, page, range_header, fd, remaining, wfile, exc, db,
      fault, prev>>

limiterVars == <<g_tmdb_rate_limiter, g_moviesdatabase_rate_limiter>>

configVars == <<g_tmdb_token, g_rapidapi_key, g_static_routes, listdir, triples>>

indexVars == <<tmdb_cast, tmdb_crew, sqlite_sequence>>

threadVars == <<pc, call, loc, err, ingest, fetched>>

vars == <<fileVars, limiterVars, configVars, cache, indexVars, threadVars>>

(***************************************************************************)
(* Responses.  Header values are kept as the text that is sent; a body is  *)
(* a text (send_text) or the extents <<offset, length>> of the file that   *)
(* were read from fd and written, in order.                                *)
(***************************************************************************)
Exts == {".mp4", ".mkv"}

get_content_type(ext) ==
    CASE ext = ".mp4" -> "video/mp4"
      [] ext = ".mkv" -> "video/x-matroska"
      [] OTHER -> "application/octet-stream"

\* rnlines(body).encode(): every "\n" becomes "\r\n".  The bodies sent here
\* hold no newline.
send_text(code, body) ==
    [status |-> code,
     ctype |-> "text/plain; charset=UTF-8",
     clen |-> Str(Len(body)),
     crange |-> <<>>,
     accept |-> "",
     text |-> body,
     chunks |-> <<>>]

send_404 == send_text(404, "Not found")

send_416 == send_text(416, "Requested range not satisfiable")

send_500(message) == send_text(500, "Internal server error: " \o message)

\* str(e) of the exceptions raised here.
ExcMessage(e) ==
    CASE e = "TypeError" -> "send_400() missing 1 required positional argument: 'message'"
      [] e = "OSError" -> "[Errno 5] Input/output error"
      [] OTHER -> ""

is_head == handler.command = "HEAD"

\* The response that is being written: the last one on the connection.
AppendChunk(w, off, n) ==
    [w EXCEPT ![Len(w)].chunks = Append(@, <<off, n>>)]

NoPrev == [set |-> FALSE, command |-> "", wfile |-> <<>>, exc |-> "none", fault |-> "none"]

(***************************************************************************)
(* handle_request -> file_endpoint -> send_file, one connection.           *)
(***************************************************************************)
(***************************************************************************)
(* Routing.  A path is the text of handler.path, a sequence of characters; *)
(* a compiled pattern is kept as its syntax tree and matched as re.match   *)
(* matches it.                                                             *)
(***************************************************************************)

Upper ==
    {"A", "B", "C", "D", "E", "F", "G", "H", "I", "J", "K", "L", "M",
     "N", "O", "P", "Q", "R", "S", "T", "U", "V", "W", "X", "Y", "Z"}

Digits == {Digit[i] : i \in 1..10}

Alnum == ({"a", "b", "c", "d", "e", "f", "g", "h", "i", "j", "k", "l", "m",
           "n", "o", "p", "q", "r", "s", "t", "u", "v", "w", "x", "y", "z"}) \cup Upper \cup Digits

\* [a-zA-Z0-9-_]
Name == Alnum \cup {"-", "_"}

ReSet(chars) == [op |-> "set", chars |-> chars, parts |-> <<>>]
ReSeq(parts) == [op |-> "seq", chars |-> {}, parts |-> parts]
ReAlt(parts) == [op |-> "alt", chars |-> {}, parts |-> parts]
ReStar(part) == [op |-> "star", chars |-> {}, parts |-> <<part>>]
RePlus(part) == [op |-> "plus", chars |-> {}, parts |-> <<part>>]
ReWord(w) == ReSeq([i \in 1..Len(w) |-> ReSet({w[i]})])

\* The positions at which a match of re that starts at a position of P ends.
RECURSIVE Ends(_, _, _)
RECURSIVE SeqEnds(_, _, _)
RECURSIVE StarEnds(_, _, _)
Ends(re, s, P) ==
    CASE re.op = "set" -> {q + 1 : q \in {x \in P : x <= Len(s) /\ s[x] \in re.chars}}
      [] re.op = "seq" -> SeqEnds(re.parts, s, P)
      [] re.op = "alt" -> UNION {Ends(re.parts[i], s, P) : i \in 1..Len(re.parts)}
      [] re.op = "star" -> StarEnds(re.parts[1], s, P)
      [] re.op = "plus" -> StarEnds(re.parts[1], s, Ends(re.parts[1], s, P))

SeqEnds(parts, s, P) ==
    IF parts = <<>> THEN P ELSE SeqEnds(Tail(parts), s, Ends(Head(parts), s, P))

StarEnds(re, s, P) ==
    LET Q == P \cup Ends(re, s, P)
    IN  IF Q = P THEN P ELSE StarEnds(re, s, Q)

\* regex.match(url_path) for a pattern written ^...$
regex_match(re, url_path) == (Len(url_path) + 1) \in Ends(re, url_path, {1})

Slash == ReSet({"/"})
Dot == ReSet({"."})

\* (\/[a-zA-Z0-9-_]+)*\/[a-zA-Z0-9-_]+\.[a-zA-Z0-9-_\.]+
FilePattern ==
    <<ReStar(ReSeq(<<Slash, RePlus(ReSet(Name))>>)),
      Slash, RePlus(ReSet(Name)), Dot, RePlus(ReSet(Name \cup {"."}))>>

\* ^(\/[a-zA-Z0-9-_]+)*\/[a-zA-Z0-9-_]+\.[a-zA-Z0-9-_\.]+\/player$
PlayerRegex ==
    ReSeq(FilePattern \o <<ReWord(<<"/", "p", "l", "a", "y", "e", "r">>)>>)

\* ^\/tmdb-images\/w[0-9]+\/[a-zA-Z0-9]+\.(jpg|jpeg|png|webp)$
ImageRegex ==
    ReSeq(<<ReWord(<<"/", "t", "m", "d", "b", "-", "i", "m", "a", "g", "e", "s",
                     "/", "w">>),
            RePlus(ReSet(Digits)), Slash, RePlus(ReSet(Alnum)), Dot,
            ReAlt(<<ReWord(<<"j", "p", "g">>), ReWord(<<"j", "p", "e", "g">>),
                    ReWord(<<"p", "n", "g">>), ReWord(<<"w", "e", "b", "p">>)>>)>>)

\* ^(\/[a-zA-Z0-9-_]+)*\/[a-zA-Z0-9-_]+\.[a-zA-Z0-9-_\.]+$
FileRegex == ReSeq(FilePattern)

\* ^((\/[a-zA-Z0-9-_]+)+|\/)$
DirectoryRegex ==
    ReAlt(<<RePlus(ReSeq(<<Slash, RePlus(ReSet(Name))>>)), Slash>>)

add_regex_route(routes, http_method, label, regex, handler_fn) ==
    Append(routes, [method |-> http_method, label |-> label, regex |-> regex,
                    fn |-> handler_fn])

\* The pattern list, in the order the module registers it.
g_regex_routes ==
    add_regex_route(
        add_regex_route(
            add_regex_route(
                add_regex_route(
                    add_regex_route(<<>>, "GET", "/.../:file/player",
                                    PlayerRegex, "player_endpoint"),
                    "GET", "/tmdb-images/:size_class/:tmdb_image_fname",
                    ImageRegex, "image_endpoint"),
                "GET", "/.../:file", FileRegex, "file_endpoint"),
            "HEAD", "/.../:file", FileRegex, "file_endpoint"),
        "GET", "/...", DirectoryRegex, "directory_endpoint")

NoStaticRoutes == [url_path \in {} |-> [method \in {} |-> ""]]

add_static_route(routes, http_method, url_path, handler_fn) ==
    LET fn_dict == IF url_path \in DOMAIN routes THEN routes[url_path]
                   ELSE [method \in {} |-> ""]
    IN  [u \in DOMAIN routes \cup {url_path} |->
            IF u = url_path
            THEN [m \in DOMAIN fn_dict \cup {http_method} |->
                     IF m = http_method THEN handler_fn ELSE fn_dict[m]]
            ELSE routes[u]]

\* route: a pattern list searched from its end, the last match winning.
RECURSIVE last_regex_route(_, _, _)
last_regex_route(routes, method, url_path) ==
    IF routes = <<>> THEN "None"
    ELSE LET r == routes[Len(routes)]
         IN  IF r.method = method /\ regex_match(r.regex, url_path) THEN r.fn
             ELSE last_regex_route(SubSeq(routes, 1, Len(routes) - 1), method, url_path)

\* route: for (method_i, label, regex, fn) in g_regex_routes
RECURSIVE first_regex_route(_, _, _)
first_regex_route(routes, method, url_path) ==
    IF routes = <<>> THEN "None"
    ELSE LET r == Head(routes)
         IN  IF r.method = method /\ regex_match(r.regex, url_path) THEN r.fn
             ELSE first_regex_route(Tail(routes), method, url_path)

\* route(handler): the handler function, "None" when there is none.
route(h) ==
    LET url_path == Split(h.path, "?")[1]
        method == h.command
    IN  IF url_path \in DOMAIN g_static_routes
           /\ method \in DOMAIN g_static_routes[url_path]
        THEN g_static_routes[url_path][method]
        ELSE first_regex_route(g_regex_routes, method, url_path)

(***************************************************************************)
(* Video files of a show: parse_filename, sort_key_video_triple and        *)
(* scan_for_videos.  A file name is a sequence of characters; a triple is  *)
(* <<season, episode, fname>>, with Unset for None.                        *)
(***************************************************************************)
\* The characters of the file names in the order of their code points.
Ascii ==
    <<" ", "-", ".">> \o Digit
        \o <<"A", "B", "C", "D", "E", "F", "G", "H", "I", "J", "K", "L", "M",
             "N", "O", "P", "Q", "R", "S", "T", "U", "V", "W", "X", "Y", "Z">>
        \o <<"_">>
        \o <<"a", "b", "c", "d", "e", "f", "g", "h", "i", "j", "k", "l", "m",
             "n", "o", "p", "q", "r", "s", "t", "u", "v", "w", "x", "y", "z">>

ord(c) == CHOOSE i \in 1..Len(Ascii) : Ascii[i] = c

\* a < b for two str values.
RECURSIVE str_less(_, _)
str_less(a, b) ==
    IF b = <<>> THEN FALSE
    ELSE IF a = <<>> THEN TRUE
    ELSE IF a[1] = b[1] THEN str_less(Tail(a), Tail(b))
    ELSE ord(a[1]) < ord(b[1])

Max(S) == CHOOSE x \in S : \A y \in S : x >= y

\* The end of the digits that \d+ takes from position i (i - 1: none).
DigitRunEnd(s, i) ==
    Max({j \in (i - 1)..Len(s) : \A k \in i..j : IsDigit(s[k])})

\* [sS](\d+)<mid>(\d+) matches at position i.
LetterNumbersAt(s, i, mid) ==
    LET e1 == DigitRunEnd(s, i + 1)
    IN  /\ s[i] \in {"s", "S"}
        /\ e1 >= i + 1
        /\ e1 + 1 <= Len(s)
        /\ s[e1 + 1] \in mid
        /\ DigitRunEnd(s, e1 + 2) >= e1 + 2

\* (\d+)[xX](\d+) matches at position i.
NumbersAt(s, i) ==
    LET e1 == DigitRunEnd(s, i)
    IN  /\ e1 >= i
        /\ e1 + 1 <= Len(s)
        /\ s[e1 + 1] \in {"x", "X"}
        /\ DigitRunEnd(s, e1 + 2) >= e1 + 2

\* m.group(1) and m.group(2) of a match whose first number starts at d.
Groups(s, d) ==
    LET e1 == DigitRunEnd(s, d)
    IN  <<IntOf(SubSeq(s, d, e1)), IntOf(SubSeq(s, e1 + 2, DigitRunEnd(s, e1 + 2)))>>

\* None as a season or an episode.
Unset == 0 - 1

parse_filename(fname) ==
    LET se == {i \in 1..Len(fname) : LetterNumbersAt(fname, i, {"e", "E"})}
        sx == {i \in 1..Len(fname) : LetterNumbersAt(fname, i, {"x", "X"})}
        nx == {i \in 1..Len(fname) : NumbersAt(fname, i)}
        e1 == DigitRunEnd(fname, 1)
    IN  IF se # {} THEN <<Groups(fname, Min(se) + 1)[1], Groups(fname, Min(se) + 1)[2], fname>>
        ELSE IF sx # {} THEN <<Groups(fname, Min(sx) + 1)[1], Unset, fname>>
        ELSE IF nx # {} THEN <<Groups(fname, Min(nx))[1], Groups(fname, Min(nx))[2], fname>>
        ELSE IF e1 >= 1 /\ e1 + 1 <= Len(fname) /\ fname[e1 + 1] = "."
        THEN <<1, IntOf(SubSeq(fname, 1, e1)), fname>>
        ELSE <<Unset, Unset, fname>>

\* A key that leaves None as it is.
sort_key_as_parsed(k) == k

sort_key_video_triple(k) ==
    <<IF k[1] = Unset THEN 9999 ELSE k[1], IF k[2] = Unset THEN 9999 ELSE k[2], k[3]>>

\* video_triples.sort(key=sort_key_video_triple) of the triples in T.
RECURSIVE sorted_triples(_)
sorted_triples(T) ==
    IF T = {} THEN <<>>
    ELSE LET \* a < b for two keys (tuples compare item by item).
             key_less(a, b) ==
                 \/ a[1] < b[1]
                 \/ a[1] = b[1] /\ a[2] < b[2]
                 \/ a[1] = b[1] /\ a[2] = b[2] /\ str_less(a[3], b[3])
             first == CHOOSE t \in T :
                 \A u \in T \ {t} :
                     key_less(sort_key_video_triple(t), sort_key_video_triple(u))
         IN  <<first>> \o sorted_triples(T \ {first})

is_video(f) ==
    LET exts ==
            {<<".", "a", "v", "i">>, <<".", "f", "l", "v">>, <<".", "w", "m", "v">>,
             <<".", "m", "p", "g">>, <<".", "m", "p", "e", "g">>, <<".", "m", "p", "2">>,
             <<".", "m", "p", "4">>, <<".", "m", "4", "v">>, <<".", "o", "g", "g">>,
             <<".", "o", "g", "m">>, <<".", "o", "g", "v">>, <<".", "w", "e", "b", "m">>,
             <<".", "m", "k", "v">>, <<".", "m", "o", "v">>, <<".", "q", "t">>}
        dots == {i \in 2..Len(f) : f[i] = "."}
        \* c.lower()
        lower(c) == IF c \in Upper THEN Ascii[ord(c) + 27] ELSE c
        \* os.path.splitext(fpath)[-1].lower()
        ext == IF dots = {} THEN <<>>
               ELSE [i \in 1..(Len(f) - Max(dots) + 1) |->
                        lower(f[Max(dots) + i - 1])]
    IN  ext \in exts

\* The season groups of sorted triples: (season, [(episode, fname), ...]).
RECURSIVE season_groups_of(_)
season_groups_of(video_triples) ==
    IF video_triples = <<>> THEN <<>>
    ELSE LET s == video_triples[1][1]
             n == Max({j \in 1..Len(video_triples) : \A k \in 1..j : video_triples[k][1] = s})
         IN  <<<<s, [i \in 1..n |-> <<video_triples[i][2], video_triples[i][3]>>]>>>>
                 \o season_groups_of(SubSeq(video_triples, n + 1, Len(video_triples)))

NoListing == [mserve_json |-> FALSE, files |-> {}]

\* scan_for_videos(url_path) of the show directory.
scan_for_videos ==
    /\ ~scan.done
    /\ fpc = "idle"
    /\ LET video_triples ==
               IF listdir.mserve_json
               THEN sorted_triples({parse_filename(f) : f \in {g \in listdir.files : is_video(g)}})
               ELSE <<>>
       IN  scan' = [done |-> TRUE, video_triples |-> video_triples,
                    season_groups |-> season_groups_of(video_triples)]
    /\ UNCHANGED <<client, fpc, handler, fpath, fn, page, range_header, fd, remaining, wfile,
                   exc, db, fault, prev>>
    /\ UNCHANGED <<limiterVars, configVars, cache, indexVars, threadVars>>

\* The url path of a video file.
FilePath == <<"/", "a", ".", "m", "p", "4">>

\* handle_request up to the call of the handler, for the request in handler
\* and the file at fpath: the counters are reset, the route of a file path
\* is file_endpoint (GET and HEAD), the index is opened, and file_endpoint
\* calls send_file.
BeginFileRequest(command, snapshot) ==
    /\ handler' = [handler EXCEPT !.command = command]
    /\ fn' = route(handler')
    /\ fn' = "file_endpoint"
    /\ UNCHANGED <<client, fpath, scan, page>>
    /\ g_tmdb_rate_limiter' = [g_tmdb_rate_limiter EXCEPT !.counter = 0]
    /\ g_moviesdatabase_rate_limiter' =
           [g_moviesdatabase_rate_limiter EXCEPT !.counter = 0]
    /\ db' = [db EXCEPT !.opened = @ + 1]
    /\ fpc' = "send_file"
    /\ range_header' = RangeNone
    /\ fd' = [open |-> FALSE, pos |-> 0]
    /\ remaining' = 0
    /\ wfile' = <<>>
    /\ exc' = "none"
    /\ fault' = "none"
    /\ prev' = snapshot
    /\ UNCHANGED <<configVars, cache, indexVars, threadVars>>

handle_request ==
    /\ fpc = "idle"
    /\ BeginFileRequest(handler.command, NoPrev)

\* The client sends the request it just made again with the other method.
reissue_request ==
    /\ fpc = "done"
    /\ ~prev.set
    /\ BeginFileRequest(
           IF handler.command = "GET" THEN "HEAD" ELSE "GET",
           [set |-> TRUE, command |-> handler.command, wfile |-> wfile,
            exc |-> exc, fault |-> fault])

FileFrame == UNCHANGED <<limiterVars, configVars, cache, indexVars, threadVars>>

\* send_file: the path does not exist.
send_file_404 ==
    /\ fpc = "send_file"
    /\ ~fpath.exists
    /\ wfile' = Append(wfile, send_404)
    /\ fpc' = "finally"
    /\ UNCHANGED <<client, handler, fpath, fn, scan, page, range_header, fd, remaining, exc, db, fault, prev>>
    /\ FileFrame

\* send_file: parse_range_header raised; the handler calls
\* send_400("Unsupported Range header format") without the handler
\* argument, which raises TypeError out of send_file.
send_file_400 ==
    /\ fpc = "send_file"
    /\ fpath.exists
    /\ parse_range_header(handler.Range).kind = "raise"
    /\ exc' = "TypeError"
    /\ fpc' = "except"
    /\ UNCHANGED <<client, handler, fpath, fn, scan, page, range_header, fd, remaining, wfile, db, fault, prev>>
    /\ FileFrame

\* send_file: the header parsed; getsize and open succeed.
send_file_open ==
    /\ fpc = "send_file"
    /\ fpath.exists
    /\ parse_range_header(handler.Range).kind # "raise"
    /\ range_header' = parse_range_header(handler.Range)
    /\ fd' = [open |-> TRUE, pos |-> 0]
    /\ fpc' = IF range_header'.kind = "None" THEN "send_whole_file"
              ELSE "send_partial_file"
    /\ UNCHANGED <<client, handler, fpath, fn, scan, page, remaining, wfile, exc, db, fault, prev>>
    /\ FileFrame

\* send_file: open raises OSError; send_file answers 500 and re-raises.
send_file_open_fails ==
    /\ fpc = "send_file"
    /\ fpath.exists
    /\ parse_range_header(handler.Range).kind # "raise"
    /\ range_header' = parse_range_header(handler.Range)
    /\ fault' = "ioerror"
    /\ wfile' = Append(wfile, send_500(ExcMessage("OSError")))
    /\ exc' = "OSError"
    /\ fpc' = "except"
    /\ UNCHANGED <<client, handler, fpath, fn, scan, page, fd, remaining, db, prev>>
    /\ FileFrame

\* send_whole_file: the 200 status line and headers.
send_whole_file ==
    /\ fpc = "send_whole_file"
    /\ wfile' = Append(wfile,
           [status |-> 200,
            ctype |-> get_content_type(fpath.ext),
            clen |-> Str(fpath.size),
            crange |-> <<>>,
            accept |-> "bytes",
            text |-> "",
            chunks |-> <<>>])
    /\ fpc' = IF is_head THEN "fd_close" ELSE "whole_loop"
    /\ UNCHANGED <<client, handler, fpath, fn, scan, page, range_header, fd, remaining, exc, db, fault, prev>>
    /\ FileFrame

\* fd.read(n): the bytes from fd.pos, at most n, none at or past the end.
ReadLen(n) ==
    IF fd.pos >= fpath.size THEN 0
    ELSE IF fpath.size - fd.pos < n THEN fpath.size - fd.pos ELSE n

\* send_whole_file: one turn of the loop: read a chunk, stop on an empty
\* one, else write it.
whole_loop ==
    /\ fpc = "whole_loop"
    /\ LET n == ReadLen(chunk_size)
       IN  /\ fd' = [fd EXCEPT !.pos = @ + n]
           /\ IF n = 0
              THEN /\ fpc' = "fd_close"
                   /\ wfile' = wfile
              ELSE /\ fpc' = "whole_loop"
                   /\ wfile' = AppendChunk(wfile, fd.pos, n)
    /\ UNCHANGED <<client, handler, fpath, fn, scan, page, range_header, remaining, exc, db, fault, prev>>
    /\ FileFrame

\* A 416 test that lets an end equal to file_size through.
not_satisfiable_strict(range, file_size) ==
    \/ file_size = 0
    \/ (~range.end_is_None /\ range.end > file_size)

\* send_partial_file: file_size == 0 or (end is not None and end >= file_size)
not_satisfiable(range, file_size) ==
    \/ file_size = 0
    \/ (~range.end_is_None /\ range.end >= file_size)

\* send_partial_file: the end and the content length of the range.
resolved_end(range, file_size) ==
    IF range.end_is_None THEN file_size - 1 ELSE range.end

\* A content length that treats the end of the range as exclusive.
content_length_exclusive(range, file_size) ==
    IF range.end_is_None
    THEN (IF range.start # 0 THEN file_size - range.start ELSE file_size)
    ELSE range.end - range.start

content_length_of(range, file_size) ==
    IF range.end_is_None
    THEN (IF range.start # 0 THEN file_size - range.start ELSE file_size)
    ELSE range.end - range.start + 1

\* send_partial_file: the range cannot be served.
send_partial_file_416 ==
    /\ fpc = "send_partial_file"
    /\ not_satisfiable(range_header, fpath.size)
    /\ wfile' = Append(wfile, send_416)
    /\ fpc' = "fd_close"
    /\ UNCHANGED <<client, handler, fpath, fn, scan, page, range_header, fd, remaining, exc, db, fault, prev>>
    /\ FileFrame

\* send_partial_file: seek, the 206 status line and headers.
send_partial_file ==
    /\ fpc = "send_partial_file"
    /\ ~not_satisfiable(range_header, fpath.size)
    /\ LET start == range_header.start
           end == resolved_end(range_header, fpath.size)
           content_length == content_length_of(range_header, fpath.size)
       IN  /\ fd' = IF start # 0 THEN [fd EXCEPT !.pos = start] ELSE fd
           /\ wfile' = Append(wfile,
                  [status |-> 206,
                   ctype |-> get_content_type(fpath.ext),
                   clen |-> Str(content_length),
                   crange |-> <<"b", "y", "t", "e", "s", " ">> \o Str(start)
                                 \o <<"-">> \o Str(end) \o <<"/">> \o Str(fpath.size),
                   accept |-> "bytes",
                   text |-> "",
                   chunks |-> <<>>])
           /\ remaining' = content_length
    /\ fpc' = IF is_head THEN "fd_close" ELSE "partial_loop"
    /\ UNCHANGED <<client, handler, fpath, fn, scan, page, range_header, exc, db, fault, prev>>
    /\ FileFrame

\* send_partial_file: one turn of the loop (or its exit when remaining <= 0).
partial_loop ==
    /\ fpc = "partial_loop"
    /\ IF remaining > 0
       THEN LET n == ReadLen(IF chunk_size > remaining THEN remaining ELSE chunk_size)
            IN  /\ fd' = [fd EXCEPT !.pos = @ + n]
                /\ remaining' = remaining - n
                /\ IF n = 0
                   THEN /\ fpc' = "fd_close"
                        /\ wfile' = wfile
                   ELSE /\ fpc' = "partial_loop"
                        /\ wfile' = AppendChunk(wfile, fd.pos, n)
       ELSE /\ fpc' = "fd_close"
            /\ UNCHANGED <<fd, remaining, wfile>>
    /\ UNCHANGED <<client, handler, fpath, fn, scan, page, range_header, exc, db, fault, prev>>
    /\ FileFrame

\* A send_file without its except BrokenPipeError / ConnectionResetError
\* clauses: the disconnect is answered like any other exception.
peer_disconnect_reported ==
    /\ fpc \in {"whole_loop", "partial_loop"}
    /\ fpc = "partial_loop" => remaining > 0
    /\ fault' = "disconnect"
    /\ wfile' = Append(wfile, send_500(ExcMessage("BrokenPipeError")))
    /\ exc' = "BrokenPipeError"
    /\ fpc' = "except"
    /\ UNCHANGED <<client, handler, fpath, fn, scan, page, range_header, fd, remaining, db, prev>>
    /\ FileFrame

\* The peer went away: handler.wfile.write(chunk) raises BrokenPipeError (or
\* ConnectionResetError) after the chunk was read; send_file passes, and
\* returns without reaching fd.close().
peer_disconnect ==
    /\ fpc \in {"whole_loop", "partial_loop"}
    /\ fpc = "partial_loop" => remaining > 0
    /\ LET n == ReadLen(IF fpc = "partial_loop" /\ chunk_size > remaining
                        THEN remaining ELSE chunk_size)
       IN  /\ n > 0
           /\ fd' = [fd EXCEPT !.pos = @ + n]
           /\ remaining' = IF fpc = "partial_loop" THEN remaining - n ELSE remaining
    /\ fault' = "disconnect"
    /\ fpc' = "finally"
    /\ UNCHANGED <<client, handler, fpath, fn, scan, page, range_header, wfile, exc, db, prev>>
    /\ FileFrame

\* fd.read raises OSError in a loop: send_file answers 500 and re-raises.
read_fails ==
    /\ fpc \in {"whole_loop", "partial_loop"}
    /\ fpc = "partial_loop" => remaining > 0
    /\ fault' = "ioerror"
    /\ wfile' = Append(wfile, send_500(ExcMessage("OSError")))
    /\ exc' = "OSError"
    /\ fpc' = "except"
    /\ UNCHANGED <<client, handler, fpath, fn, scan, page, range_header, fd, remaining, db, prev>>
    /\ FileFrame

\* send_file: fd.close() after send_whole_file or send_partial_file returned.
fd_close ==
    /\ fpc = "fd_close"
    /\ fd' = [fd EXCEPT !.open = FALSE]
    /\ fpc' = "finally"
    /\ UNCHANGED <<client, handler, fpath, fn, scan, page, range_header, remaining, wfile, exc, db, fault, prev>>
    /\ FileFrame

\* handle_request: except Exception: send_500, raise.
handle_request_except ==
    /\ fpc = "except"
    /\ wfile' = Append(wfile, send_500(ExcMessage(exc)))
    /\ fpc' = "finally"
    /\ UNCHANGED <<client, handler, fpath, fn, scan, page, range_header, fd, remaining, exc, db, fault, prev>>
    /\ FileFrame

\* handle_request with db.close() after the try statement: it is reached
\* on a return and on a suppressed disconnect, not when the exception is
\* raised again.
handle_request_close_after_try ==
    /\ fpc = "finally"
    /\ db' = IF exc = "none" THEN [db EXCEPT !.closed = @ + 1] ELSE db
    /\ fpc' = "done"
    /\ UNCHANGED <<client, handler, fpath, fn, scan, page, range_header, fd, remaining, wfile, exc, fault, prev>>
    /\ FileFrame

\* handle_request: finally: db.close(); the exception, if any, leaves
\* handle_request.
handle_request_finally ==
    /\ fpc = "finally"
    /\ db' = [db EXCEPT !.closed = @ + 1]
    /\ fpc' = "done"
    /\ UNCHANGED <<client, handler, fpath, fn, scan, page, range_header, fd, remaining, wfile, exc, fault, prev>>
    /\ FileFrame

\* handle_request for any request: the counters are reset and the request
\* is routed; without a handler 404 is sent, else the index is opened and
\* the handler called.
handle_request_route ==
    /\ fpc = "idle"
    /\ g_tmdb_rate_limiter' = [g_tmdb_rate_limiter EXCEPT !.counter = 0]
    /\ g_moviesdatabase_rate_limiter' =
           [g_moviesdatabase_rate_limiter EXCEPT !.counter = 0]
    /\ fn' = route(handler)
    /\ IF fn' = "None"
       THEN /\ wfile' = Append(wfile, send_404)
            /\ fpc' = "done"
            /\ db' = db
       ELSE /\ wfile' = wfile
            /\ fpc' = "endpoint"
            /\ db' = [db EXCEPT !.opened = @ + 1]
    /\ UNCHANGED <<client, handler, fpath, scan, page, range_header, fd, remaining, exc, fault,
                   prev>>
    /\ UNCHANGED <<configVars, cache, indexVars, threadVars>>

\* fn(handler, db) returns; what the handler wrote is not followed here.
endpoint_returns ==
    /\ fpc = "endpoint"
    /\ fpc' = "finally"
    /\ UNCHANGED <<client, handler, fpath, fn, scan, page, range_header, fd, remaining, wfile, exc,
                   db, fault, prev>>
    /\ FileFrame

NextFile ==
    \/ handle_request
    \/ reissue_request
    \/ send_file_404
    \/ send_file_400
    \/ send_file_open
    \/ send_file_open_fails
    \/ send_whole_file
    \/ whole_loop
    \/ send_partial_file_416
    \/ send_partial_file
    \/ partial_loop
    \/ peer_disconnect
    \/ read_fails
    \/ fd_close
    \/ handle_request_except
    \/ handle_request_finally

(***************************************************************************)
(* JSON.  A file or response body is its raw text; json.load / json.loads  *)
(* decode it to a value or raise.  A value is None or a dict, of which the *)
(* model keeps the key set and the "cast" and "crew" lists.                *)
(***************************************************************************)
None == [t |-> "None", keys |-> {}, cast |-> <<>>, crew |-> <<>>]

Dict(keys, cast, crew) == [t |-> "dict", keys |-> keys, cast |-> cast, crew |-> crew]

\* {} : what get_json_from_url returns in case of failure.
EmptyDict == Dict({}, <<>>, <<>>)

\* Python's truth value of a decoded value: None and {} are false.
Truthy(v) == v.t = "dict" /\ v.keys # {}

RawEmpty == ""
RawHtml == "<html>503</html>"
RawEmptyDict == "{}"
RawShow == "{\"id\": 1087}"
RawCredits == "{\"id\": 1087, \"cast\": [A/Hero], \"crew\": [B/Director]}"
RawCrewOnly == "{\"id\": 1087, \"cast\": [], \"crew\": [B/Director]}"
RawCastTwice == "{\"id\": 1087, \"cast\": [A/Hero, A/Hero], \"crew\": []}"

CanDecode(raw) == raw \notin {RawEmpty, RawHtml}

json_loads(raw) ==
    CASE raw = RawEmptyDict -> EmptyDict
      [] raw = RawShow -> Dict({"id"}, <<>>, <<>>)
      [] raw = RawCredits ->
             Dict({"id", "cast", "crew"}, <<<<"A", "Hero">>>>, <<<<"B", "Director">>>>)
      [] raw = RawCrewOnly ->
             Dict({"id", "cast", "crew"}, <<>>, <<<<"B", "Director">>>>)
      [] raw = RawCastTwice ->
             Dict({"id", "cast", "crew"}, <<<<"A", "Hero">>, <<"A", "Hero">>>>, <<>>)
      [] OTHER -> None

\* load_json(fpath): the decoded file, None when it is missing or does not
\* decode.
load_json(cache_fpath) ==
    IF cache[cache_fpath].exists /\ CanDecode(cache[cache_fpath].data)
    THEN json_loads(cache[cache_fpath].data)
    ELSE None

(***************************************************************************)
(* The metadata calls of a page: get_tmdb_show_details, get_imdb_rating    *)
(* and fetch_tmdb_show_details_credits, each through get_json_from_url.    *)
(***************************************************************************)
Requests == {1, 2}

TmdbIds == {"tv/1087"}
\* The shows a directory page may list.
PageIds == TmdbIds \cup {"tv/655", "tv/1855"}
ImdbIds == {"tt0092455"}

DetailsPath(tmdb_id) == tmdb_id \o ".json"
CreditsPath(tmdb_id) == tmdb_id \o ".credits.json"
RatingsPath(imdb_id) == imdb_id \o ".ratings.json"

CachePaths ==
    {DetailsPath(i) : i \in PageIds} \cup {CreditsPath(i) : i \in PageIds}
        \cup {RatingsPath(i) : i \in ImdbIds}

\* What the provider may answer for a URL.
Bodies(caller) ==
    IF caller = "fetch_tmdb_show_details_credits"
    THEN {RawEmptyDict, RawCredits, RawCrewOnly, RawCastTwice}
    ELSE {RawEmpty, RawHtml, RawEmptyDict, RawShow}

NoCall ==
    [fn |-> "", id |-> "", provider |-> "", cache_fpath |-> "", cache_only |-> FALSE,
     held |-> FALSE]

\* e is the exception bound by get_json_from_url's except clause.
NoLocals == [tmp |-> 0, data |-> "", js |-> None, e |-> "none"]

rate_limiter(provider) ==
    IF provider = "tmdb" THEN g_tmdb_rate_limiter ELSE g_moviesdatabase_rate_limiter

Running(r) == pc[r] # "idle"

\* A handle_request that leaves the counters of the limiters as the
\* request before left them.
handle_page_request_no_reset(r) ==
    /\ pc[r] = "idle"
    /\ pc' = [pc EXCEPT ![r] = "handler"]
    /\ fetched' = [p \in DOMAIN fetched |-> 0]
    /\ err' = [err EXCEPT ![r] = "none"]
    /\ UNCHANGED <<fileVars, limiterVars, configVars, cache, indexVars, call, loc, ingest>>

\* handle_request of a page: the counters are reset, the route of a
\* directory path is directory_endpoint, the index is opened.
handle_page_request(r) ==
    /\ pc[r] = "idle"
    /\ g_tmdb_rate_limiter' = [g_tmdb_rate_limiter EXCEPT !.counter = 0]
    /\ g_moviesdatabase_rate_limiter' =
           [g_moviesdatabase_rate_limiter EXCEPT !.counter = 0]
    /\ pc' = [pc EXCEPT ![r] = "handler"]
    /\ fetched' = [p \in DOMAIN fetched |-> 0]
    /\ err' = [err EXCEPT ![r] = "none"]
    /\ UNCHANGED <<fileVars, configVars, cache, indexVars, call, loc, ingest>>

\* A variant that never selects cache-only mode.
cache_only_never(credential) == FALSE

\* if g_tmdb_token: ... else: get_json_from_url(..., cache_only=True)
cache_only_of(credential) == ~credential

\* get_tmdb_show_details(tmdb_id) up to its call of get_json_from_url.
get_tmdb_show_details(r) ==
    /\ pc[r] = "handler"
    /\ \E tmdb_id \in TmdbIds :
           call' = [call EXCEPT ![r] =
                       [fn |-> "get_tmdb_show_details", id |-> tmdb_id,
                        provider |-> "tmdb",
                        cache_fpath |-> DetailsPath(tmdb_id),
                        cache_only |-> cache_only_of(g_tmdb_token), held |-> FALSE]]
    /\ pc' = [pc EXCEPT ![r] = "load_json"]
    /\ UNCHANGED <<fileVars, limiterVars, configVars, cache, indexVars, loc, err,
                   ingest, fetched>>

\* get_imdb_rating(imdb_id) up to its call of get_json_from_url.
get_imdb_rating(r) ==
    /\ pc[r] = "handler"
    /\ \E imdb_id \in ImdbIds :
           call' = [call EXCEPT ![r] =
                       [fn |-> "get_imdb_rating", id |-> imdb_id,
                        provider |-> "moviesdatabase",
                        cache_fpath |-> RatingsPath(imdb_id),
                        cache_only |-> cache_only_of(g_rapidapi_key), held |-> FALSE]]
    /\ pc' = [pc EXCEPT ![r] = "load_json"]
    /\ UNCHANGED <<fileVars, limiterVars, configVars, cache, indexVars, loc, err,
                   ingest, fetched>>

MetaFrame == UNCHANGED <<fileVars, configVars, indexVars, call, err, ingest>>

\* get_json_from_url: cached_json = load_json(cache_fpath); a true value is
\* returned; else {} in cache-only mode; else on to the rate limiter.
gj_load_json(r) ==
    /\ pc[r] = "load_json"
    /\ LET cached_json == load_json(call[r].cache_fpath)
       IN  IF Truthy(cached_json)
           THEN /\ loc' = [loc EXCEPT ![r] = [@ EXCEPT !.js = cached_json]]
                /\ pc' = [pc EXCEPT ![r] = "return"]
           ELSE IF call[r].cache_only
           THEN /\ loc' = [loc EXCEPT ![r] = [@ EXCEPT !.js = EmptyDict]]
                /\ pc' = [pc EXCEPT ![r] = "return"]
           ELSE /\ loc' = loc
                /\ pc' = [pc EXCEPT ![r] = "rate_limit"]
    /\ UNCHANGED <<limiterVars, cache, fetched>>
    /\ MetaFrame

\* get_json_from_url: if rate_limiter["counter"] > rate_limiter["limit"]:
\* return {}.
gj_rate_limit(r) ==
    /\ pc[r] = "rate_limit"
    /\ IF rate_limiter(call[r].provider).counter > rate_limiter(call[r].provider).limit
       THEN /\ loc' = [loc EXCEPT ![r] = [@ EXCEPT !.js = EmptyDict]]
            /\ pc' = [pc EXCEPT ![r] = "return"]
       ELSE /\ loc' = loc
            /\ pc' = [pc EXCEPT ![r] = "incr_load"]
    /\ UNCHANGED <<limiterVars, cache, fetched>>
    /\ MetaFrame

\* rate_limiter["counter"] += 1 is a read, an add and a write; the threads
\* of ThreadingHTTPServer may interleave between the two.  A write of a
\* stale value after another request's reset can carry the counter upwards
\* without end: the model follows it up to MaxLimit + 2.
gj_incr_load(r) ==
    /\ pc[r] = "incr_load"
    /\ rate_limiter(call[r].provider).counter <= MaxLimit + 1
    /\ loc' = [loc EXCEPT ![r] = [@ EXCEPT !.tmp = rate_limiter(call[r].provider).counter]]
    /\ pc' = [pc EXCEPT ![r] = "incr_store"]
    /\ UNCHANGED <<limiterVars, cache, fetched>>
    /\ MetaFrame

gj_incr_store(r) ==
    /\ pc[r] = "incr_store"
    /\ IF call[r].provider = "tmdb"
       THEN /\ g_tmdb_rate_limiter' =
                   [g_tmdb_rate_limiter EXCEPT !.counter = loc[r].tmp + 1]
            /\ UNCHANGED g_moviesdatabase_rate_limiter
       ELSE /\ g_moviesdatabase_rate_limiter' =
                   [g_moviesdatabase_rate_limiter EXCEPT !.counter = loc[r].tmp + 1]
            /\ UNCHANGED g_tmdb_rate_limiter
    /\ loc' = [loc EXCEPT ![r] = [@ EXCEPT !.tmp = 0]]
    /\ pc' = [pc EXCEPT ![r] = "urlopen"]
    /\ UNCHANGED <<cache, fetched>>
    /\ MetaFrame

\* The count of urlopen calls, kept up to MaxLimit + 2.
CountFetch(p) ==
    [fetched EXCEPT ![p] = IF @ < MaxLimit + 2 THEN @ + 1 ELSE @]

\* get_json_from_url: urlopen(req) and fd.read() give the response body.
gj_urlopen(r) ==
    /\ pc[r] = "urlopen"
    /\ \E data \in Bodies(call[r].fn) :
           loc' = [loc EXCEPT ![r] = [@ EXCEPT !.data = data]]
    /\ fetched' = CountFetch(call[r].provider)
    /\ pc' = [pc EXCEPT ![r] = "open_wb"]
    /\ UNCHANGED <<limiterVars, cache>>
    /\ MetaFrame

\* urlopen raises and nothing catches it: the exception ends the request.
gj_urlopen_uncaught(r) ==
    /\ pc[r] = "urlopen"
    /\ err' = [err EXCEPT ![r] = "URLError"]
    /\ fetched' = CountFetch(call[r].provider)
    /\ pc' = [pc EXCEPT ![r] = "idle"]
    /\ call' = [call EXCEPT ![r] = NoCall]
    /\ loc' = [loc EXCEPT ![r] = NoLocals]
    /\ UNCHANGED <<fileVars, limiterVars, configVars, cache, indexVars, ingest>>

\* get_json_from_url: urlopen raises (network error, non-success status);
\* the exception is caught and {} returned.
gj_urlopen_fails(r) ==
    /\ pc[r] = "urlopen"
    /\ loc' = [loc EXCEPT ![r] = [@ EXCEPT !.js = EmptyDict, !.e = "URLError"]]
    /\ fetched' = CountFetch(call[r].provider)
    /\ pc' = [pc EXCEPT ![r] = "return"]
    /\ UNCHANGED <<limiterVars, cache>>
    /\ MetaFrame

\* get_json_from_url: open(cache_fpath, 'wb') creates or truncates the file.
gj_open_wb(r) ==
    /\ pc[r] = "open_wb"
    /\ cache' = [cache EXCEPT ![call[r].cache_fpath] = [exists |-> TRUE, data |-> ""]]
    /\ pc' = [pc EXCEPT ![r] = "write"]
    /\ UNCHANGED <<limiterVars, loc, fetched>>
    /\ MetaFrame

\* get_json_from_url: fd.write(data), the file is closed, and
\* json.loads(data) is returned, or {} when it raises.
gj_write(r) ==
    /\ pc[r] = "write"
    /\ cache' = [cache EXCEPT ![call[r].cache_fpath] =
                    [exists |-> TRUE, data |-> loc[r].data]]
    /\ loc' = [loc EXCEPT ![r] =
                  [@ EXCEPT !.data = "",
                            !.js = IF CanDecode(loc[r].data)
                                   THEN json_loads(loc[r].data)
                                   ELSE EmptyDict,
                            !.e = IF CanDecode(loc[r].data)
                                  THEN "none" ELSE "JSONDecodeError"]]
    /\ pc' = [pc EXCEPT ![r] = "return"]
    /\ UNCHANGED <<limiterVars, fetched>>
    /\ MetaFrame

\* get_tmdb_show_details / get_imdb_rating return what get_json_from_url
\* returned; the page goes on.
gj_return(r) ==
    /\ pc[r] = "return"
    /\ call[r].fn # "fetch_tmdb_show_details_credits"
    /\ pc' = [pc EXCEPT ![r] = "handler"]
    /\ call' = [call EXCEPT ![r] = NoCall]
    /\ loc' = [loc EXCEPT ![r] = NoLocals]
    /\ UNCHANGED <<fileVars, limiterVars, configVars, cache, indexVars, err, ingest,
                   fetched>>

\* handle_request of a page: the handler returned, finally: db.close().
finish_page_request(r) ==
    /\ pc[r] = "handler"
    /\ pc' = [pc EXCEPT ![r] = "idle"]
    /\ UNCHANGED <<fileVars, limiterVars, configVars, cache, indexVars, call, loc,
                   err, ingest, fetched>>

(***************************************************************************)
(* The credit index: tables tmdb_cast and tmdb_crew, rows                  *)
(* [id, tmdb_id, name, role], UNIQUE(tmdb_id, name, role), id INTEGER      *)
(* PRIMARY KEY AUTOINCREMENT.                                              *)
(***************************************************************************)
SameKey(row, tmdb_id, name, role) ==
    row.tmdb_id = tmdb_id /\ row.name = name /\ row.role = role

\* INSERT INTO t (tmdb_id, name, role): a row that conflicts with the
\* UNIQUE constraint makes the statement fail.
insert_abort(rows, lastid, tmdb_id, name, role) ==
    IF \E x \in rows : SameKey(x, tmdb_id, name, role)
    THEN [rows |-> rows, lastid |-> lastid, error |-> "IntegrityError"]
    ELSE [rows |-> rows \cup {[id |-> lastid + 1, tmdb_id |-> tmdb_id,
                               name |-> name, role |-> role]},
          lastid |-> lastid + 1, error |-> "none"]

\* INSERT OR REPLACE INTO t (tmdb_id, name, role): the rows that conflict
\* with the UNIQUE constraint are deleted, and the new row gets the next id.
insert_or_replace(rows, lastid, tmdb_id, name, role) ==
    [rows |-> {x \in rows : ~SameKey(x, tmdb_id, name, role)}
                  \cup {[id |-> lastid + 1, tmdb_id |-> tmdb_id,
                         name |-> name, role |-> role]},
     lastid |-> lastid + 1,
     error |-> "none"]

\* The inserts into a table without its UNIQUE(tmdb_id, name, role)
\* constraint: every statement adds a row.
insert_credits_no_unique(rows, lastid, tmdb_id, credits) ==
    [rows |-> rows \cup {[id |-> lastid + i, tmdb_id |-> tmdb_id,
                          name |-> credits[i][1], role |-> credits[i][2]] :
                             i \in 1..Len(credits)},
     lastid |-> lastid + Len(credits),
     error |-> "none"]

\* for credit in js[...]: cursor.execute(sql, (tmdb_id, name, role)), up to
\* the first statement that raises.
RECURSIVE insert_credits(_, _, _, _)
insert_credits(rows, lastid, tmdb_id, credits) ==
    IF credits = <<>> THEN [rows |-> rows, lastid |-> lastid, error |-> "none"]
    ELSE LET one == insert_or_replace(rows, lastid, tmdb_id,
                                      Head(credits)[1], Head(credits)[2])
         IN  IF one.error # "none" THEN one
             ELSE insert_credits(one.rows, one.lastid, tmdb_id, Tail(credits))

\* SELECT COUNT(id) FROM tmdb_cast WHERE tmdb_id = ?
count_cast(tmdb_id) == Cardinality({x \in tmdb_cast : x.tmdb_id = tmdb_id})

\* The index holds a record, cast or crew, for tmdb_id.
Holds(tmdb_id) == \E x \in tmdb_cast \cup tmdb_crew : x.tmdb_id = tmdb_id

\* fetch_tmdb_show_details_credits(tmdb_id, db) is called; held records
\* whether the index held a record for tmdb_id at that time.
fetch_tmdb_show_details_credits(r) ==
    /\ pc[r] = "handler"
    /\ \E tmdb_id \in TmdbIds :
           call' = [call EXCEPT ![r] =
                       [fn |-> "fetch_tmdb_show_details_credits", id |-> tmdb_id,
                        provider |-> "tmdb",
                        cache_fpath |-> CreditsPath(tmdb_id),
                        cache_only |-> cache_only_of(g_tmdb_token),
                        held |-> Holds(tmdb_id)]]
    /\ pc' = [pc EXCEPT ![r] = "precheck"]
    /\ UNCHANGED <<fileVars, limiterVars, configVars, cache, indexVars, loc, err,
                   ingest, fetched>>

\* The pre-check: return when tmdb_cast has a row for tmdb_id, else go on to
\* get_json_from_url.
credits_precheck(r) ==
    /\ pc[r] = "precheck"
    /\ IF count_cast(call[r].id) > 0
       THEN /\ pc' = [pc EXCEPT ![r] = "handler"]
            /\ call' = [call EXCEPT ![r] = NoCall]
       ELSE /\ pc' = [pc EXCEPT ![r] = "load_json"]
            /\ call' = call
    /\ UNCHANGED <<fileVars, limiterVars, configVars, cache, indexVars, loc, err,
                   ingest, fetched>>

\* The inserts of js["cast"] and js["crew"] and db.commit(): one write
\* transaction, which sqlite runs apart from the write transaction of any
\* other connection (the later one waits for the commit).  An exception
\* leaves fetch_tmdb_show_details_credits and the handler: handle_request
\* answers 500 and closes the connection, which drops the uncommitted rows.
credits_insert(r) ==
    /\ pc[r] = "return"
    /\ call[r].fn = "fetch_tmdb_show_details_credits"
    /\ LET js == loc[r].js
           tmdb_id == call[r].id
           cast == insert_credits(tmdb_cast, sqlite_sequence.tmdb_cast, tmdb_id,
                                  IF "cast" \in js.keys THEN js.cast ELSE <<>>)
           crew == insert_credits(tmdb_crew, sqlite_sequence.tmdb_crew, tmdb_id,
                                  IF "crew" \in js.keys THEN js.crew ELSE <<>>)
       IN  /\ cast.lastid <= MaxRowId
           /\ crew.lastid <= MaxRowId
           /\ IF cast.error # "none" \/ crew.error # "none"
              THEN /\ UNCHANGED <<indexVars, ingest>>
                   /\ err' = [err EXCEPT ![r] =
                                 IF cast.error # "none" THEN cast.error ELSE crew.error]
                   /\ pc' = [pc EXCEPT ![r] = "idle"]
              ELSE /\ tmdb_cast' = cast.rows
                   /\ tmdb_crew' = crew.rows
                   /\ sqlite_sequence' =
                          [tmdb_cast |-> cast.lastid, tmdb_crew |-> crew.lastid]
                   /\ ingest' = [ingest EXCEPT ![tmdb_id] =
                                    IF js.cast = <<>> /\ js.crew = <<>> THEN @
                                    ELSE IF @.js = js
                                    THEN [@ EXCEPT !.times = IF @ < 2 THEN @ + 1 ELSE @]
                                    ELSE [js |-> js, times |-> 1]]
                   /\ err' = err
                   /\ pc' = [pc EXCEPT ![r] = "handler"]
    /\ call' = [call EXCEPT ![r] = NoCall]
    /\ loc' = [loc EXCEPT ![r] = NoLocals]
    /\ UNCHANGED <<fileVars, limiterVars, configVars, cache, fetched>>

(***************************************************************************)
(* The directory page: render_directory's prepare_tuples calls, for every  *)
(* show of the directory in turn, get_tmdb_show_details and                *)
(* fetch_tmdb_show_details_credits.  The shows carry no imdb_id, in their  *)
(* metadata or in their details, so that get_imdb_rating(None) returns {}  *)
(* at once.  The page is rendered by request 1.                            *)
(***************************************************************************)
\* prepare_tuples: the next call of the loop over the triples.
prepare_tuples ==
    /\ pc[1] = "handler"
    /\ page.i <= Len(triples)
    /\ LET tmdb_id == triples[page.i]
       IN  IF page.step = "details"
           THEN /\ call' = [call EXCEPT ![1] =
                               [fn |-> "get_tmdb_show_details", id |-> tmdb_id,
                                provider |-> "tmdb",
                                cache_fpath |-> DetailsPath(tmdb_id),
                                cache_only |-> cache_only_of(g_tmdb_token),
                                held |-> FALSE]]
                /\ pc' = [pc EXCEPT ![1] = "load_json"]
                /\ page' = [page EXCEPT !.step = "credits"]
           ELSE /\ call' = [call EXCEPT ![1] =
                               [fn |-> "fetch_tmdb_show_details_credits", id |-> tmdb_id,
                                provider |-> "tmdb",
                                cache_fpath |-> CreditsPath(tmdb_id),
                                cache_only |-> cache_only_of(g_tmdb_token),
                                held |-> Holds(tmdb_id)]]
                /\ pc' = [pc EXCEPT ![1] = "precheck"]
                /\ page' = [i |-> page.i + 1, step |-> "details"]
    /\ UNCHANGED <<client, fpc, handler, fpath, fn, scan, range_header, fd, remaining, wfile,
                   exc, db, fault, prev>>
    /\ UNCHANGED <<limiterVars, configVars, cache, indexVars, loc, err, ingest, fetched>>

\* The loop is over: the page is rendered and sent, finally: db.close().
render_directory_returns ==
    /\ pc[1] = "handler"
    /\ page.i > Len(triples)
    /\ pc' = [pc EXCEPT ![1] = "idle"]
    /\ page' = [i |-> 1, step |-> "details"]
    /\ UNCHANGED <<client, fpc, handler, fpath, fn, scan, range_header, fd, remaining, wfile,
                   exc, db, fault, prev>>
    /\ UNCHANGED <<limiterVars, configVars, cache, indexVars, call, loc, err, ingest,
                   fetched>>

(***************************************************************************)
(* The specifications.                                                     *)
(***************************************************************************)
Limits == 1..MaxLimit

InitFileVars ==
    /\ fpc = "idle"
    /\ range_header = RangeNone
    /\ fd = [open |-> FALSE, pos |-> 0]
    /\ remaining = 0
    /\ wfile = <<>>
    /\ exc = "none"
    /\ db = [opened |-> 0, closed |-> 0]
    /\ fault = "none"
    /\ prev = NoPrev
    /\ fn = ""
    /\ scan = ([done |-> FALSE, video_triples |-> <<>>, season_groups |-> <<>>])
    /\ page = [i |-> 1, step |-> "details"]

InitIndexVars ==
    /\ tmdb_cast = {}
    /\ tmdb_crew = {}
    /\ sqlite_sequence = [tmdb_cast |-> 0, tmdb_crew |-> 0]
    /\ pc = [r \in Requests |-> "idle"]
    /\ call = [r \in Requests |-> NoCall]
    /\ loc = [r \in Requests |-> NoLocals]
    /\ err = [r \in Requests |-> "none"]
    /\ ingest = [i \in PageIds |-> [js |-> None, times |-> 0]]
    /\ fetched = [p \in {"tmdb", "moviesdatabase"} |-> 0]

InitSharedVars ==
    /\ cache = [p \in CachePaths |-> [exists |-> FALSE, data |-> ""]]
    /\ InitIndexVars

\* A server that only streams files (no credentials are needed), a file
\* path and the request a client sends for it.
InitFile ==
    /\ InitFileVars
    /\ client \in ({Ask("none", 0, 0)} \cup ({Ask("prefix", n, 0) : n \in RangeVals}
                                                 \cup {Ask("full", a, b) : a \in RangeVals, b \in RangeVals}
                                                 \cup {Ask("suffix", n, 0) : n \in RangeVals \ {0}})
                       \cup {Ask(f, 0, 0) : f \in MalformedForms \cup {"baredash", "twoeq"}})
    /\ \E command \in {"GET", "HEAD"} :
           handler = [command |-> command, Range |-> RangeOf(client),
                      path |-> FilePath]
    /\ g_static_routes = NoStaticRoutes
    /\ listdir = NoListing
    /\ triples = <<>>
    /\ fpath \in ({[exists |-> FALSE, size |-> 0, ext |-> e] : e \in Exts}
                      \cup {[exists |-> TRUE, size |-> n, ext |-> e] : n \in ((0..MaxSmallSize) \cup {50}
                                                                                  \cup {k * chunk_size + d : k \in 1..MaxChunks, d \in {0, 1}}), e \in Exts})
    /\ InitSharedVars
    /\ g_tmdb_rate_limiter = [limit |-> MaxLimit, counter |-> 0]
    /\ g_moviesdatabase_rate_limiter = [limit |-> MaxLimit, counter |-> 0]
    /\ g_tmdb_token = FALSE
    /\ g_rapidapi_key = FALSE

\* A server that renders pages, with or without credentials in its
\* environment.  The locals tmp and data of get_json_from_url are kept only
\* while they are live.
InitMeta ==
    /\ InitFileVars
    /\ client = Ask("none", 0, 0)
    /\ handler = [command |-> "GET", Range |-> NoRange, path |-> <<"/">>]
    /\ fpath = [exists |-> FALSE, size |-> 0, ext |-> ".mp4"]
    /\ g_static_routes = NoStaticRoutes
    /\ listdir = NoListing
    /\ triples = <<>>
    /\ InitSharedVars
    /\ \E limit \in Limits :
           /\ g_tmdb_rate_limiter = [limit |-> limit, counter |-> 0]
           /\ g_moviesdatabase_rate_limiter = [limit |-> limit, counter |-> 0]
    /\ g_tmdb_token \in BOOLEAN
    /\ g_rapidapi_key \in BOOLEAN

\* The cache directory as earlier runs of the server may have left it: a
\* file is absent, complete, or (details) not JSON.
Absent == [exists |-> FALSE, data |-> ""]
OnDisk(raw) == [exists |-> TRUE, data |-> raw]

\* A server with a cache directory and, or not, its credentials.
InitPage ==
    /\ InitFileVars
    /\ client = Ask("none", 0, 0)
    /\ handler = [command |-> "GET", Range |-> NoRange, path |-> <<"/">>]
    /\ fpath = [exists |-> FALSE, size |-> 0, ext |-> ".mp4"]
    /\ g_static_routes = NoStaticRoutes
    /\ listdir = NoListing
    /\ triples = <<>>
    /\ InitIndexVars
    /\ cache \in ({[p \in CachePaths |->
                       IF p \in {DetailsPath(i) : i \in TmdbIds} THEN d
                       ELSE IF p \in {RatingsPath(i) : i \in ImdbIds} THEN g
                       ELSE Absent] :
                       d \in {Absent, OnDisk(RawShow), OnDisk(RawHtml)},
                       g \in {Absent, OnDisk(RawShow), OnDisk(RawEmptyDict)}})
    /\ \E limit \in Limits :
           /\ g_tmdb_rate_limiter = [limit |-> limit, counter |-> 0]
           /\ g_moviesdatabase_rate_limiter = [limit |-> limit, counter |-> 0]
    /\ g_tmdb_token \in BOOLEAN
    /\ g_rapidapi_key \in BOOLEAN

Paths ==
    (UNION {{<<"/">> \o t : t \in [1..n -> {"/", "a", ".", "?"}]} : n \in 0..(MaxPathLen - 1)})
        \cup {(<<"/", "t", "m", "d", "b", "-", "i", "m", "a", "g", "e", "s",
                 "/", "w", "5", "0", "0", "/", "a", "b", "c", ".", "j", "p", "g">>), (FilePath \o <<"/", "p", "l", "a", "y", "e", "r">>), FilePath,
              <<"/", "S", "-", "1", "/", "e", "_", "2", ".", "m", "k", "v">>,
              <<"/", "a", "/", "b", "?", "s", "o", "r", "t", "=", "1">>,
              <<"/", "a", " ", "b">>}

\* A server and one request of any method and path.
InitRoute ==
    /\ InitFileVars
    /\ client = Ask("none", 0, 0)
    /\ \E command \in {"GET", "HEAD", "POST"}, path \in Paths :
           handler = [command |-> command, Range |-> NoRange, path |-> path]
    /\ fpath = [exists |-> FALSE, size |-> 0, ext |-> ".mp4"]
    /\ g_static_routes \in ({NoStaticRoutes,
                             add_static_route(NoStaticRoutes, "GET", <<"/">>, "index_endpoint"),
                             add_static_route(
                                 add_static_route(NoStaticRoutes, "POST", <<"/", "a">>, "post_endpoint"),
                                 "GET", <<"/", "a", ".", "a">>, "static_endpoint")})
    /\ listdir = NoListing
    /\ triples = <<>>
    /\ InitSharedVars
    /\ g_tmdb_rate_limiter = [limit |-> MaxLimit, counter |-> 0]
    /\ g_moviesdatabase_rate_limiter = [limit |-> MaxLimit, counter |-> 0]
    /\ g_tmdb_token = FALSE
    /\ g_rapidapi_key = FALSE

\* The names of the files of a show directory.
Pilot == <<"1", ".", " ", "P", "i", "l", "o", "t", ".", "m", "p", "4">>

Extras ==
    <<"S", "3", "X", "1", "-", "b", "e", "h", "i", "n", "d", "-", "t", "h", "e",
      "-", "s", "c", "e", "n", "e", "s", ".", "m", "p", "4">>

Trailer == <<"t", "r", "a", "i", "l", "e", "r", ".", "m", "p", "4">>

ShowS2E10 == <<"s", "h", "o", "w", "-", "s", "2", "e", "1", "0", ".", "m", "k", "v">>

\* "show-s<season>e<episode>.mp4"
EpisodeFile(season, episode) ==
    <<"s", "h", "o", "w", "-", "s">> \o Str(season) \o <<"e">> \o Str(episode)
        \o <<".", "m", "p", "4">>

EpisodeVals == {1, 2, 10000}

FileNames ==
    {Pilot, Extras, Trailer, ShowS2E10,
     <<"s", "1", "x", "2", ".", "m", "p", "4">>,
     <<"n", "o", "t", "e", "s", ".", "t", "x", "t">>,
     (Str(2) \o <<"x">> \o Str(3) \o <<".", "M", "K", "V">>)}
        \cup {EpisodeFile(season, episode) : season \in {1, 2, 10000}, episode \in EpisodeVals}

\* A show directory of at most MaxFiles files.
InitVideos ==
    /\ InitFileVars
    /\ client = Ask("none", 0, 0)
    /\ handler = [command |-> "GET", Range |-> NoRange, path |-> <<"/">>]
    /\ fpath = [exists |-> FALSE, size |-> 0, ext |-> ".mp4"]
    /\ g_static_routes = NoStaticRoutes
    /\ \E mserve_json \in BOOLEAN :
           \E files \in {F \in SUBSET FileNames : Cardinality(F) <= MaxFiles} :
               listdir = [mserve_json |-> mserve_json, files |-> files]
    /\ triples = <<>>
    /\ InitSharedVars
    /\ g_tmdb_rate_limiter = [limit |-> MaxLimit, counter |-> 0]
    /\ g_moviesdatabase_rate_limiter = [limit |-> MaxLimit, counter |-> 0]
    /\ g_tmdb_token = FALSE
    /\ g_rapidapi_key = FALSE

SpecVideos == InitVideos /\ [][scan_for_videos]_vars

NextRoute ==
    \/ handle_request_route
    \/ endpoint_returns
    \/ handle_request_finally

SpecRoute == InitRoute /\ [][NextRoute]_vars

\* get_json_from_url, from load_json to its return value.
get_json_from_url(r) ==
    \/ gj_load_json(r)
    \/ gj_rate_limit(r)
    \/ gj_incr_load(r)
    \/ gj_incr_store(r)
    \/ gj_urlopen(r)
    \/ gj_urlopen_fails(r)
    \/ gj_open_wb(r)
    \/ gj_write(r)

\* Concurrent page requests that look up show details.
NextCache ==
    \E r \in Requests :
        \/ handle_page_request(r)
        \/ get_tmdb_show_details(r)
        \/ get_json_from_url(r)
        \/ gj_return(r)
        \/ finish_page_request(r)

\* Page requests one after the other, with both providers.
NextPage ==
    \/ handle_page_request(1)
    \/ get_tmdb_show_details(1)
    \/ get_imdb_rating(1)
    \/ get_json_from_url(1)
    \/ gj_return(1)
    \/ finish_page_request(1)

\* Page requests that ingest credits.
NextDb ==
    \E r \in Requests :
        \/ handle_page_request(r)
        \/ fetch_tmdb_show_details_credits(r)
        \/ credits_precheck(r)
        \/ get_json_from_url(r)
        \/ credits_insert(r)
        \/ finish_page_request(r)

\* A directory page of up to MaxShows shows, asked for again and again; the
\* cache files of the first calls of the page may be on disk already.  A
\* limit of 0 lets one fetch through per request.
InitLoads ==
    /\ InitFileVars
    /\ client = Ask("none", 0, 0)
    /\ handler = [command |-> "GET", Range |-> NoRange, path |-> <<"/">>]
    /\ fpath = [exists |-> FALSE, size |-> 0, ext |-> ".mp4"]
    /\ g_static_routes = NoStaticRoutes
    /\ listdir = NoListing
    /\ triples \in {SubSeq(<<"tv/1087", "tv/655", "tv/1855">>, 1, n) : n \in 1..MaxShows}
    /\ InitIndexVars
    /\ \E k \in 0..(2 * Len(triples)) :
           cache = [p \in CachePaths |->
                       IF \E i \in 1..Len(triples) :
                              p = DetailsPath(triples[i]) /\ 2 * i - 1 <= k
                       THEN OnDisk(RawShow)
                       ELSE IF \E i \in 1..Len(triples) :
                                   p = CreditsPath(triples[i]) /\ 2 * i <= k
                       THEN OnDisk(RawCredits)
                       ELSE Absent]
    /\ \E limit \in 0..MaxLimit :
           /\ g_tmdb_rate_limiter = [limit |-> limit, counter |-> 0]
           /\ g_moviesdatabase_rate_limiter = [limit |-> limit, counter |-> 0]
    /\ g_tmdb_token \in BOOLEAN
    /\ g_rapidapi_key = FALSE

\* The directory page, loaded again and again by one client.
NextLoads ==
    \/ handle_page_request(1)
    \/ prepare_tuples
    \/ credits_precheck(1)
    \/ get_json_from_url(1)
    \/ gj_return(1)
    \/ credits_insert(1)
    \/ render_directory_returns

\* The server thread runs on and the client keeps asking for the page.
SpecLoads == InitLoads /\ [][NextLoads]_vars /\ WF_vars(NextLoads)

SpecFile == InitFile /\ [][NextFile]_vars

SpecCache == InitMeta /\ [][NextCache]_vars

SpecPage == InitPage /\ [][NextPage]_vars

SpecDb == InitMeta /\ [][NextDb]_vars

(***************************************************************************)
(* Properties of the file streamer, checked under SpecFile.                 *)
(***************************************************************************)
\* The headers of one response.
Headers(resp) == <<resp.status, resp.ctype, resp.clen, resp.crange, resp.accept>>

\* The extents are the bytes a..b of the file, in order and without gaps.
BodyIsRange(chunks, a, b) ==
    /\ chunks # <<>>
    /\ chunks[1][1] = a
    /\ \A i \in 1..Len(chunks) : chunks[i][2] > 0
    /\ \A i \in 1..(Len(chunks) - 1) : chunks[i + 1][1] = chunks[i][1] + chunks[i][2]
    /\ chunks[Len(chunks)][1] + chunks[Len(chunks)][2] - 1 = b

ContentRange(a, b, size) ==
    <<"b", "y", "t", "e", "s", " ">> \o Str(a) \o <<"-">> \o Str(b)
        \o <<"/">> \o Str(size)

\* The request ran to its end with no I/O failure and no disconnect.
Served == fpc = "done" /\ fault = "none" /\ fpath.exists

\* C4: a GET with Range bytes=start-end, 0 <= start <= end < fileSize, of an
\* existing file is answered by one response with status 206, Content-Range
\* "bytes start-end/fileSize", Content-Length end - start + 1, and a body
\* that is exactly the bytes start..end of the file.
C4_RangedGet ==
    (/\ Served
     /\ handler.command = "GET"
     /\ client.form = "full"
     /\ client.a <= client.b
     /\ client.b < fpath.size)
    => /\ Len(wfile) = 1
       /\ wfile[1].status = 206
       /\ wfile[1].crange = ContentRange(client.a, client.b, fpath.size)
       /\ wfile[1].clen = Str(client.b - client.a + 1)
       /\ wfile[1].text = ""
       /\ BodyIsRange(wfile[1].chunks, client.a, client.b)

\* A range that starts inside the file and takes more than one read.
C4_Witness ==
    /\ Served
    /\ handler.command = "GET"
    /\ client.form = "full"
    /\ 0 < client.a
    /\ client.a <= client.b
    /\ client.b < fpath.size
    /\ Len(wfile) = 1
    /\ wfile[1].status = 206
    /\ Len(wfile[1].chunks) >= 2

\* C5: bytes=N- resolves its end to fileSize - 1, and the suffix form
\* bytes=-N resolves to start = max(0, fileSize - N), end = fileSize - 1, so
\* that bytes=-100 of a 50-byte file serves the whole file.
C5_OpenEndedAndSuffix ==
    (Served /\ fpath.size > 0 /\ Len(wfile) >= 1)
    => /\ (client.form = "prefix" /\ client.a < fpath.size)
           => /\ wfile[1].status = 206
              /\ wfile[1].crange =
                     ContentRange(client.a, fpath.size - 1, fpath.size)
       /\ client.form = "suffix"
           => /\ wfile[1].status = 206
              /\ wfile[1].crange =
                     ContentRange(IF fpath.size > client.a
                                  THEN fpath.size - client.a ELSE 0,
                                  fpath.size - 1, fpath.size)

\* C6: a Range header that is not one single range of the three forms is
\* answered with status 400, and no 200, 206 or 500 is sent.
C6_MalformedIs400 ==
    (fpc = "done" /\ fpath.exists /\ client.form \in MalformedForms)
    => /\ Len(wfile) >= 1
       /\ \A i \in 1..Len(wfile) : wfile[i].status = 400

\* C7: a range whose end is >= fileSize, and any range of an empty file, is
\* answered with 416; no 206 is sent at any point of the request.
C7_NotSatisfiable ==
    (/\ fpath.exists
     /\ client.form \in {"prefix", "full", "suffix"}
     /\ \/ fpath.size = 0
        \/ (client.form = "full" /\ client.b >= fpath.size))
    => /\ \A i \in 1..Len(wfile) : wfile[i].status # 206
       /\ Served => (Len(wfile) = 1 /\ wfile[1].status = 416)

\* An end equal to the size of a non-empty file was refused.
C7_Witness ==
    /\ Served
    /\ client.form = "full"
    /\ client.a <= client.b
    /\ fpath.size > 0
    /\ client.b = fpath.size
    /\ Len(wfile) = 1
    /\ wfile[1].status = 416

\* C8: a HEAD request gets the status and headers of the same GET request
\* and no body, on the 404, 400 and 416 paths too.
C8_HeadLikeGet ==
    (fpc = "done" /\ prev.set /\ fault = "none" /\ prev.fault = "none")
    => LET head == IF handler.command = "HEAD" THEN wfile ELSE prev.wfile
           get == IF handler.command = "HEAD" THEN prev.wfile ELSE wfile
       IN  /\ Len(head) = Len(get)
           /\ \A i \in 1..Len(head) :
                  /\ Headers(head[i]) = Headers(get[i])
                  /\ head[i].text = ""
                  /\ head[i].chunks = <<>>

(***************************************************************************)
(* Properties of the JSON cache, checked under SpecPage and SpecCache.      *)
(***************************************************************************)
\* The steps of get_json_from_url after its cache_only test.
PastCache == {"rate_limit", "incr_load", "incr_store", "urlopen", "open_wb"}

\* C1: when the cache file exists and decodes, get_json_from_url returns
\* the decoded content and goes no further than the cache.
C1_CacheHit ==
    \A r \in Requests :
        call[r].fn # ""
        => LET f == cache[call[r].cache_fpath]
           IN  (f.exists /\ CanDecode(f.data))
               => /\ pc[r] \notin PastCache
                  /\ pc[r] = "return" => loc[r].js = json_loads(f.data)

\* C2: within one request a limiter of limit N lets N fetches through and
\* no more.
C2_LimitFetches ==
    /\ fetched["tmdb"] <= g_tmdb_rate_limiter.limit
    /\ fetched["moviesdatabase"] <= g_moviesdatabase_rate_limiter.limit

\* C3: while a request runs, the counter it uses changes only when that
\* request itself increments it: no other request resets or increments it.
C3_CountersPerRequest ==
    [][\A r \in Requests :
           (/\ Running(r)
            /\ Running(r)'
            /\ g_tmdb_rate_limiter'.counter # g_tmdb_rate_limiter.counter)
           => (pc[r] = "incr_store" /\ pc'[r] = "urlopen")]_vars

(***************************************************************************)
(* Properties of the credits index, checked under SpecDb.                   *)
(***************************************************************************)
UniqueRows(rows) ==
    \A x \in rows : \A y \in rows :
        SameKey(x, y.tmdb_id, y.name, y.role) => x = y

\* The rows of one credit (name, role) of tmdb_id.
RowsOf(rows, tmdb_id, credit) ==
    {x \in rows : SameKey(x, tmdb_id, credit[1], credit[2])}

OneRowEach(rows, tmdb_id, credits) ==
    \A i \in 1..Len(credits) : Cardinality(RowsOf(rows, tmdb_id, credits[i])) = 1

\* C9: however often a credits record is ingested, each table holds exactly
\* one row per (externalId, name, role), and no ingestion fails.
C9_IngestIdempotent ==
    /\ UniqueRows(tmdb_cast)
    /\ UniqueRows(tmdb_crew)
    /\ \A r \in Requests : err[r] = "none"
    /\ \A id \in TmdbIds :
           ingest[id].times >= 1
           => /\ OneRowEach(tmdb_cast, id, ingest[id].js.cast)
              /\ OneRowEach(tmdb_crew, id, ingest[id].js.crew)

\* The same record, with credits in it, was ingested a second time.
C9_Witness ==
    \E id \in TmdbIds :
        /\ ingest[id].times = 2
        /\ ingest[id].js.crew # <<>>
        /\ Cardinality(tmdb_crew) = Len(ingest[id].js.crew)

\* C10: when the index holds a cast or crew record of the id at the call,
\* fetch_tmdb_show_details_credits does nothing beyond its first query.
C10_SkippedWhenHeld ==
    \A r \in Requests :
        (call[r].fn = "fetch_tmdb_show_details_credits" /\ call[r].held)
        => pc[r] = "precheck"

\* Request r runs fetch_tmdb_show_details_credits past its pre-check.
Ingesting(r) ==
    call[r].fn = "fetch_tmdb_show_details_credits" /\ pc[r] # "precheck"

\* The inserts of r meet those of another request that passed the
\* pre-check for the same id: the other is still between its pre-check and
\* its commit, or has committed cast rows since r's pre-check.
Overlaps(r) ==
    \/ count_cast(call[r].id) > 0
    \/ \E q \in Requests \ {r} : Ingesting(q) /\ call[q].id = call[r].id

\* C24: when two requests both pass the pre-check and both ingest the
\* credits of one id, in any interleaving, neither fails because of the
\* other's inserts and each commit leaves exactly one row per
\* (externalId, name, role) in the cast and crew tables.
C24_ConcurrentIngest ==
    [][\A r \in Requests :
           (Ingesting(r) /\ pc[r] = "return" /\ pc'[r] # "return" /\ Overlaps(r))
           => /\ \A q \in Requests : err'[q] = "none"
              /\ UniqueRows(tmdb_cast')
              /\ UniqueRows(tmdb_crew')
              /\ OneRowEach(tmdb_cast', call[r].id, loc[r].js.cast)
              /\ OneRowEach(tmdb_crew', call[r].id, loc[r].js.crew)]_vars

\* Two requests passed the pre-check before either committed, and both have
\* ingested the same record with cast rows.
C24_Witness ==
    \E id \in TmdbIds :
        /\ ingest[id].times = 2
        /\ ingest[id].js.cast # <<>>
        /\ \A r \in Requests : err[r] = "none" /\ pc[r] = "handler"
        /\ Cardinality(tmdb_cast) = Cardinality({ingest[id].js.cast[i] :
                                                    i \in 1..Len(ingest[id].js.cast)})

(***************************************************************************)
(* Failures, cache-only mode and concurrent writers of the JSON cache.      *)
(***************************************************************************)
\* C11: a failure of the fetch in get_json_from_url (urlopen raises, or the
\* body does not decode) is caught there: the call returns the empty record
\* and no exception ends the request.
C11_FetchFailureCaught ==
    \A r \in Requests :
        /\ err[r] = "none"
        /\ loc[r].e # "none"
           => /\ pc[r] = "return"
              /\ loc[r].js = EmptyDict

\* A call whose fetch raised has come back with the empty record.
C11_Witness ==
    /\ pc[1] = "return"
    /\ loc[1].e = "URLError"
    /\ loc[1].js = EmptyDict
    /\ err[1] = "none"

Credential(provider) ==
    IF provider = "tmdb" THEN g_tmdb_token ELSE g_rapidapi_key

\* C12: without the provider's credential a call goes no further than the
\* cache: it returns the cached content when the file is usable and the
\* empty record otherwise, and no step of it fetches, writes a cache file
\* or changes a limiter's counter.
C12_CacheOnly ==
    /\ [](\A r \in Requests :
             (call[r].fn # "" /\ ~Credential(call[r].provider))
             => /\ pc[r] \in {"load_json", "return"}
                /\ pc[r] = "return"
                   => loc[r].js =
                          IF Truthy(load_json(call[r].cache_fpath))
                          THEN load_json(call[r].cache_fpath)
                          ELSE EmptyDict)
    /\ [][\A r \in Requests :
             (call[r].fn # "" /\ ~Credential(call[r].provider))
             => UNCHANGED <<cache, limiterVars, fetched>>]_vars

\* A call without credential returned the content of its cache file.
C12_Witness ==
    /\ call[1].fn = "get_tmdb_show_details"
    /\ ~g_tmdb_token
    /\ pc[1] = "return"
    /\ loc[1].js = json_loads(RawShow)
    /\ fetched["tmdb"] = 0

\* C13: a request that reads a cache path never does so while another
\* request has the file of that path open for writing, truncated and not
\* yet written: it sees no file or the complete content.
C13_NoPartialRead ==
    [][\A q \in Requests :
           (pc[q] = "load_json" /\ pc'[q] # "load_json")
           => ~\E r \in Requests \ {q} :
                  /\ pc[r] = "write"
                  /\ call[r].cache_fpath = call[q].cache_fpath]_vars

\* C21: after a fetch of get_json_from_url failed (urlopen raised, or the
\* response did not decode), no cache file exists for the key of the call.
C21_NoFileAfterFailure ==
    \A r \in Requests :
        (pc[r] = "return" /\ loc[r].e # "none")
        => ~cache[call[r].cache_fpath].exists

\* C22: a cache file with non-empty content keeps that content in every
\* later state, and no request calls the remote service for its key.
C22_CacheFileStable ==
    [][\A p \in CachePaths :
           (cache[p].exists /\ cache[p].data # "")
           => /\ cache'[p] = cache[p]
              /\ \A r \in Requests :
                     (pc[r] = "urlopen" /\ pc'[r] # "urlopen")
                     => call[r].cache_fpath # p]_vars

(***************************************************************************)
(* Progress of the directory page across requests, checked under SpecLoads. *)
(***************************************************************************)
\* The cache files of the tmdb keys the page needs.
PageKeys ==
    {DetailsPath(triples[i]) : i \in 1..Len(triples)}
        \cup {CreditsPath(triples[i]) : i \in 1..Len(triples)}

AllCached == \A p \in PageKeys : Truthy(load_json(p))

\* No fetch has failed: urlopen did not raise and the body it gave decodes
\* to a record.
FetchSucceeds ==
    /\ loc[1].e = "none"
    /\ loc[1].data # "" => Truthy(json_loads(loc[1].data))

BeforeQuery(path) ==
    IF \E i \in 1..Len(path) : path[i] = "?"
    THEN SubSeq(path, 1, Min({i \in 1..Len(path) : path[i] = "?"}) - 1)
    ELSE path

\* The entries of the pattern list that are for the method and match.
Matching(method, url_path) ==
    {i \in 1..Len(g_regex_routes) :
        /\ g_regex_routes[i].method = method
        /\ regex_match(g_regex_routes[i].regex, url_path)}

\* C14: route returns the exact-match handler of (path, method) when there
\* is one, else the handler of the first entry of the pattern list, in
\* registration order, for the method that matches the path, and none only
\* when no entry matches; it writes no response.
C14_Route ==
    fn # ""
    => LET url_path == BeforeQuery(handler.path)
           method == handler.command
       IN  /\ IF /\ url_path \in DOMAIN g_static_routes
                 /\ method \in DOMAIN g_static_routes[url_path]
              THEN fn = g_static_routes[url_path][method]
              ELSE IF Matching(method, url_path) # {}
              THEN fn = g_regex_routes[Min(Matching(method, url_path))].fn
              ELSE fn = "None"
           /\ fn # "None" => wfile = <<>>

\* A path that two entries of the pattern list match went to the first.
C14_Witness ==
    /\ handler.command = "GET"
    /\ Cardinality(Matching("GET", BeforeQuery(handler.path))) = 2
    /\ fn = "image_endpoint"

\* The path with duplicate slashes collapsed.
RECURSIVE CollapseSlashes(_)
CollapseSlashes(path) ==
    IF Len(path) < 2 THEN path
    ELSE IF path[1] = "/" /\ path[2] = "/" THEN CollapseSlashes(Tail(path))
    ELSE <<path[1]>> \o CollapseSlashes(Tail(path))

\* The path without its trailing slashes, the root path excepted.
RECURSIVE DropTrailingSlashes(_)
DropTrailingSlashes(path) ==
    IF Len(path) > 1 /\ path[Len(path)] = "/"
    THEN DropTrailingSlashes(SubSeq(path, 1, Len(path) - 1))
    ELSE path

Normalized(path) == DropTrailingSlashes(CollapseSlashes(BeforeQuery(path)))

\* C15: a request is routed by its normalized path (no query string, no
\* duplicate slash, no trailing slash but the root's), so a path and its
\* variants get the same handler.
C15_NormalizedRouting ==
    fn # "" => fn = route([handler EXCEPT !.path = Normalized(handler.path)])

(***************************************************************************)
(* Connections and failures while a file is served, checked under SpecFile. *)
(***************************************************************************)
\* The requests handle_request was entered for so far.
Entered == IF prev.set THEN 2 ELSE IF fpc = "idle" THEN 0 ELSE 1

\* C16: handle_request opens at most one index connection per request and
\* has closed every connection it opened when it is left, whether it
\* returns, suppresses a disconnect, or reports 500 and raises again.
C16_ConnectionClosed ==
    /\ db.opened <= Entered
    /\ db.opened - db.closed \in {0, 1}
    /\ fpc \in {"idle", "done"} => db.closed = db.opened

\* handle_request was left by an exception, its connection closed.
C16_Witness ==
    /\ fpc = "done"
    /\ exc # "none"
    /\ db.opened >= 1
    /\ db.closed = db.opened

\* C17: when the peer disconnects during the body write of send_file, the
\* request ends normally: nothing is written after the response that was
\* under way, and no exception leaves send_file or handle_request.
C17_DisconnectIsNormal ==
    fault = "disconnect"
    => /\ exc = "none"
       /\ fpc \in {"finally", "done"}
       /\ Len(wfile) = 1
       /\ wfile[1].status \in {200, 206}

\* The peer went away after a part of the body, and the request is over.
C17_Witness ==
    /\ fpc = "done"
    /\ fault = "disconnect"
    /\ exc = "none"
    /\ Len(wfile) = 1
    /\ Len(wfile[1].chunks) >= 1

\* C18: an I/O failure that is not a disconnect gives a 500 with a
\* description when no headers were sent before it, and nothing more on the
\* connection when the headers of the response were already sent.
C18_FailureAfterHeaders ==
    (fpc = "done" /\ fault = "ioerror")
    => /\ Len(wfile) >= 1
       /\ \/ wfile[1].status = 500
          \/ (wfile[1].status \in {200, 206} /\ Len(wfile) = 1)

\* C25: on every path through handle_request at most one response (one
\* status line with its header block) is written to the connection.
C25_OneResponse == Len(wfile) <= 1

\* C26: every 206 of send_file, for the parsed range (start, end) and the
\* file size, has 0 <= start <= end < fileSize in its Content-Range and
\* Content-Length end - start + 1 >= 1; a range with start > end or
\* start >= fileSize never gives a 206.
C26_ValidPartial ==
    \A i \in 1..Len(wfile) :
        wfile[i].status = 206
        => LET start == range_header.start
               end == resolved_end(range_header, fpath.size)
           IN  /\ 0 <= start
               /\ start <= end
               /\ end < fpath.size
               /\ wfile[i].crange = ContentRange(start, end, fpath.size)
               /\ end - start + 1 >= 1
               /\ wfile[i].clen = Str(end - start + 1)

\* C27: when send_file is left, on any exit path, the file handle it opened
\* is closed.
C27_HandleClosed == fpc \in {"except", "finally", "done"} => ~fd.open

(***************************************************************************)
(* Properties of the video listing, checked under SpecVideos.               *)
(***************************************************************************)
\* The names "show-s1e<episode>.mp4".
IsS1E(fname) == \E episode \in EpisodeVals : fname = EpisodeFile(1, episode)

\* The place of a file name in the listing, 0 when it is not listed.
PlaceOf(fname) ==
    IF \E i \in 1..Len(scan.video_triples) : scan.video_triples[i][3] = fname
    THEN CHOOSE i \in 1..Len(scan.video_triples) : scan.video_triples[i][3] = fname
    ELSE 0

Listed(fname) == PlaceOf(fname) > 0

\* Every listed file of A comes before every listed file of B.
AllBefore(A, B) ==
    \A a \in A : \A b \in B :
        (Listed(a) /\ Listed(b)) => PlaceOf(a) < PlaceOf(b)

Classified ==
    /\ parse_filename(Pilot) = <<1, 1, Pilot>>
    /\ parse_filename(Extras) = <<3, Unset, Extras>>
    /\ parse_filename(Trailer) = <<Unset, Unset, Trailer>>
    /\ parse_filename(ShowS2E10) = <<2, 10, ShowS2E10>>

S1EFiles == {f \in FileNames : IsS1E(f)}

\* C19 as stated: the four names classify as (1, 1), (3, none),
\* (none, none) and (2, 10), and "1. Pilot.mp4",
\* "S3X1-behind-the-scenes.mp4" and "trailer.mp4" are listed in that order
\* after every s1e* entry of the directory.
C19_AfterEveryS1E ==
    scan.done
    => /\ Classified
       /\ AllBefore({Pilot}, {Extras, Trailer})
       /\ AllBefore({Extras}, {Trailer})
       /\ AllBefore(S1EFiles, {Pilot, Extras, Trailer})

\* C19 amended: the four names classify as stated, the three are listed in
\* that order, "S3X1-behind-the-scenes.mp4" and "trailer.mp4" after every
\* s1e* entry, and "1. Pilot.mp4" as season 1 episode 1, before every s1e*
\* entry of a later episode.
C19_PilotIsEpisodeOne ==
    scan.done
    => /\ Classified
       /\ AllBefore({Pilot}, {Extras, Trailer})
       /\ AllBefore({Extras}, {Trailer})
       /\ AllBefore(S1EFiles, {Extras, Trailer})
       /\ AllBefore({Pilot}, {f \in S1EFiles : parse_filename(f)[2] > 1})

\* A directory with an s1e* entry and the three files was listed.
C19_Witness ==
    /\ scan.done
    /\ Len(scan.video_triples) = 4
    /\ PlaceOf(Pilot) = 1
    /\ PlaceOf(EpisodeFile(1, 2)) = 2
    /\ PlaceOf(Extras) = 3
    /\ PlaceOf(Trailer) = 4

\* x comes before y when unset is greater than every number.
UnsetLast(x, y) == x # Unset /\ (y = Unset \/ x < y)

\* C20: the listing is ordered by season, an unset season after every real
\* one, then by episode, an unset episode after every real one, then by
\* file name; an entry with a real value, however large, precedes the
\* entries where the value is unset.
C20_UnsetAfterEveryNumber ==
    scan.done
    => \A i \in 1..Len(scan.video_triples) : \A j \in 1..Len(scan.video_triples) :
           LET t == scan.video_triples[i]
               u == scan.video_triples[j]
           IN  (\/ UnsetLast(t[1], u[1])
                \/ (t[1] = u[1] /\ UnsetLast(t[2], u[2]))
                \/ (t[1] = u[1] /\ t[2] = u[2] /\ str_less(t[3], u[3])))
               => i < j

====
